---- MODULE Spec2Model ----
(***************************************************************************)
(* Model of the Telegram gateway bot of src/main.py: the users table, the  *)
(* traffic_log table, the command handlers /start and /menu, the two       *)
(* access gates and the Flyer webhook.  Every handler invocation is an     *)
(* asyncio task; one action of the model is the code a task runs up to and *)
(* including its next store statement, check answer or reply.  The code a  *)
(* handler runs before its first store statement reads no shared state and *)
(* is part of the action that receives the request.                        *)
(***************************************************************************)
EXTENDS Integers, Sequences, FiniteSets, TLC

(* ---------------------------------------------------------------- bounds *)
\* total number of requests (bot updates and webhook posts) accepted in a run
MaxRequests == 2

(* ------------------------------------------------------------ input sets *)
\* asyncio tasks that can be alive at the same time (aiogram handles each
\* update in its own task, aiohttp each request)
Slots == {1, 2}
\* the Telegram users that write to the bot: from_user.id and
\* from_user.is_premium, which Telegram sends as True or omits (None)
TgUsers == { [id |-> 1, is_premium |-> "True"],
             [id |-> 2, is_premium |-> "None"] }
\* external identities (from_user.id / data.user_id)
UserIds == { u.id : u \in TgUsers }
\* SQL NULL and Python None for text values
NULL == "NULL"
\* white space symbols of a message text
Space == " "
Newline == "\n"
Whitespace == {Space, Newline}
\* message texts accepted by CommandStart(); a text is a sequence of symbols,
\* each symbol a white space character or a run of other characters
StartTexts ==
  { <<"/start">>,
    <<"/start", Space>>,
    <<"/start", Space, "a">>,
    <<"/start", Space, "b">>,
    <<"/start", Space, Space, "a">>,
    <<"/start", Newline, "a">> }

(* ------------------------------------------------------------ JSON values *)
JNull == [tag |-> "null"]
JStr(s) == [tag |-> "str", val |-> s]
JInt(n) == [tag |-> "int", val |-> n]
JObj(f) == [tag |-> "obj", val |-> f]
EmptyDict == JObj(<<>>)
\* Python None as the result of dict.get
PyNone == JNull

\* dict.get(key, default)
DictGet(d, key, default) ==
  IF key \in DOMAIN d.val THEN d.val[key] ELSE default

UserData(u) == JObj("user_id" :> JInt(u))
\* webhook bodies
Payloads ==
  { JObj(("type" :> JStr("sub_completed")) @@ ("data" :> UserData(u))) : u \in UserIds }
  \cup
  { JObj("type" :> JStr("sub_completed")),
    JObj(("type" :> JStr("sub_completed")) @@ ("data" :> EmptyDict)),
    JObj(("type" :> JStr("sub_completed")) @@ ("data" :> JNull)),
    JObj(("type" :> JStr("other")) @@ ("data" :> UserData(1))),
    JObj("data" :> UserData(1)) }
NoPayload == EmptyDict

(* ------------------------------------------------------- text operations *)
\* str.split(" "): cut at every single space, empty pieces are kept
RECURSIVE SplitSpace(_, _)
SplitSpace(text, cur) ==
  IF text = <<>> THEN <<cur>>
  ELSE IF Head(text) = Space
       THEN <<cur>> \o SplitSpace(Tail(text), <<>>)
       ELSE SplitSpace(Tail(text), Append(cur, Head(text)))

\* str.split(): cut at runs of white space, no empty pieces
RECURSIVE SplitAny(_, _)
SplitAny(text, cur) ==
  IF text = <<>> THEN (IF cur = <<>> THEN <<>> ELSE <<cur>>)
  ELSE IF Head(text) \in Whitespace
       THEN (IF cur = <<>> THEN <<>> ELSE <<cur>>) \o SplitAny(Tail(text), <<>>)
       ELSE SplitAny(Tail(text), Append(cur, Head(text)))

\* the characters of a piece as one string
RECURSIVE Join(_)
Join(piece) == IF piece = <<>> THEN "" ELSE Head(piece) \o Join(Tail(piece))

\* start_cmd line 116 raises IndexError when split(" ") has no second piece
ParseRaises(text) ==
  Len(SplitAny(text, <<>>)) > 1 /\ Len(SplitSpace(text, <<>>)) < 2

\* start_cmd line 116
ParseSource(text) ==
  IF Len(SplitAny(text, <<>>)) > 1
  THEN Join(SplitSpace(text, <<>>)[2])
  ELSE NULL

\* bool(user.is_premium)
PyBool(flag) == flag = "True"

(* ------------------------------------------------------------------ state *)
VARIABLES
  users,         \* table users, rows in insertion order
  traffic_log,   \* table traffic_log, rows in insertion order
  tasks,         \* the running handler invocations, one per slot
  outbox,        \* messages sent with message.answer, in order
  requests,      \* number of requests accepted so far
  first_source   \* history: per identity, the source of the first executed
                 \* upsert that carried a non-null source

vars == <<users, traffic_log, tasks, outbox, requests, first_source>>

\* NOW(): the store clock, read as the number of requests accepted so far
Now(n) == n

(* ------------------------------------------------------- store statements *)
RowsOf(tbl, id) == { i \in 1..Len(tbl) : tbl[i].tg_id = id }
HasRow(tbl, id) == RowsOf(tbl, id) # {}
\* the profile row of an identity that has one
RowOf(tbl, id) == tbl[CHOOSE i \in RowsOf(tbl, id) : TRUE]

\* faulty variant: the new value wins whenever it is not NULL
CoalesceLastWins(a, b) == IF b # NULL THEN b ELSE a

\* COALESCE(a, b)
Coalesce(a, b) == IF a # NULL THEN a ELSE b

\* faulty variant: source is overwritten with the new observation
MergeRowOverwritesSource(row, is_premium, source, flyer_passed, clock) ==
  [row EXCEPT !.is_premium = is_premium,
              !.last_seen_at = clock,
              !.flyer_passed = row.flyer_passed \/ flyer_passed,
              !.source = source]

\* faulty variant: flyer_passed is overwritten with the new observation
MergeRowOverwritesPassed(row, is_premium, source, flyer_passed, clock) ==
  [row EXCEPT !.is_premium = is_premium,
              !.last_seen_at = clock,
              !.flyer_passed = flyer_passed,
              !.source = Coalesce(row.source, source)]

\* faulty variant: a returning user is marked as passed whatever the check said
MergeRowGrants(row, is_premium, source, flyer_passed, clock) ==
  [row EXCEPT !.is_premium = is_premium,
              !.last_seen_at = clock,
              !.flyer_passed = TRUE,
              !.source = Coalesce(row.source, source)]

\* the DO UPDATE SET list of upsert_user applied to an existing row
MergeRow(row, is_premium, source, flyer_passed, clock) ==
  [row EXCEPT !.is_premium = is_premium,
              !.last_seen_at = clock,
              !.flyer_passed = row.flyer_passed \/ flyer_passed,
              !.source = Coalesce(row.source, source)]

\* the row INSERT INTO users ... VALUES builds, timestamps by DEFAULT NOW()
NewRow(tg_id, is_premium, source, flyer_passed, clock) ==
  [tg_id |-> tg_id, is_premium |-> is_premium, source |-> source,
   flyer_passed |-> flyer_passed, created_at |-> clock, last_seen_at |-> clock]

\* faulty variant: a plain INSERT into a table without the UNIQUE constraint
UpsertUserInsertsAlways(tbl, tg_id, is_premium, source, flyer_passed, clock) ==
  Append(tbl, NewRow(tg_id, is_premium, source, flyer_passed, clock))

\* faulty variant: on a conflict the SET list is applied to every row
UpsertUserMergesEveryRow(tbl, tg_id, is_premium, source, flyer_passed, clock) ==
  IF HasRow(tbl, tg_id)
  THEN [i \in 1..Len(tbl) |->
          MergeRow(tbl[i], is_premium, source, flyer_passed, clock)]
  ELSE Append(tbl, NewRow(tg_id, is_premium, source, flyer_passed, clock))

\* INSERT INTO users ... ON CONFLICT (tg_id) DO UPDATE ...
UpsertUser(tbl, tg_id, is_premium, source, flyer_passed, clock) ==
  IF HasRow(tbl, tg_id)
  THEN [i \in 1..Len(tbl) |->
          IF tbl[i].tg_id = tg_id
          THEN MergeRow(tbl[i], is_premium, source, flyer_passed, clock)
          ELSE tbl[i]]
  ELSE Append(tbl, NewRow(tg_id, is_premium, source, flyer_passed, clock))

\* faulty variant: an UPDATE without its WHERE clause
MatchesAnyRow(row, param) == TRUE

\* WHERE tg_id = $1 ; a NULL parameter matches no row
MatchesParam(row, param) ==
  IF param.tag = "int" THEN row.tg_id = param.val ELSE FALSE

\* faulty variant: the UPDATE sets the wrong column
UpdateSetsPremium(tbl, param) ==
  [i \in 1..Len(tbl) |->
     IF MatchesParam(tbl[i], param)
     THEN [tbl[i] EXCEPT !.is_premium = TRUE]
     ELSE tbl[i]]

\* UPDATE users SET flyer_passed = TRUE WHERE tg_id = $1
UpdateFlyerPassed(tbl, param) ==
  [i \in 1..Len(tbl) |->
     IF MatchesParam(tbl[i], param)
     THEN [tbl[i] EXCEPT !.flyer_passed = TRUE]
     ELSE tbl[i]]

\* number of rows the UPDATE touches
RowCount(tbl, param) ==
  Cardinality({ i \in 1..Len(tbl) : MatchesParam(tbl[i], param) })

\* faulty variant: the newest event is put in front of the older ones
LogEventInFront(log, tg_id, event, source, is_premium, clock) ==
  <<[tg_id |-> tg_id, event |-> event, source |-> source,
     is_premium |-> is_premium, created_at |-> clock]>> \o log

\* faulty variant: the event is recorded without its source
LogEventWithoutSource(log, tg_id, event, source, is_premium, clock) ==
  Append(log, [tg_id |-> tg_id, event |-> event, source |-> NULL,
               is_premium |-> is_premium, created_at |-> clock])

\* INSERT INTO traffic_log ...
LogEvent(log, tg_id, event, source, is_premium, clock) ==
  Append(log, [tg_id |-> tg_id, event |-> event, source |-> source,
               is_premium |-> is_premium, created_at |-> clock])

\* faulty variant: every check goes to the regular client
FlyerClientRegularOnly(flag) == "flyer_regular"

\* check_flyer line 98
FlyerClient(flag) == IF PyBool(flag) THEN "flyer_premium" ELSE "flyer_regular"

(* ------------------------------------------------------------------ tasks *)
IdleTask ==
  [kind |-> "idle", pc |-> "idle", user_id |-> 0, is_premium |-> "None",
   source |-> NULL, ok |-> FALSE, client |-> NULL,
   answered |-> FALSE, payload |-> NoPayload, rowcount |-> 0, response |-> NULL,
   error |-> NULL, conn |-> FALSE]

\* flyer_webhook lines 138-139
EventType(payload) == DictGet(payload, "type", PyNone)
Data(payload) == DictGet(payload, "data", EmptyDict)
\* flyer_webhook line 142; only evaluated when data is a dict
DataUserId(payload) == DictGet(Data(payload), "user_id", PyNone)
\* faulty variant: the type of the notification is not looked at
IsAnyType(payload) == TRUE
\* flyer_webhook line 141
IsSubCompleted(payload) == EventType(payload) = JStr("sub_completed")
\* data.get on None raises AttributeError
GetRaises(payload) == Data(payload).tag # "obj"

\* The tables outlive the process (init_db creates them only IF NOT EXISTS):
\* at start-up users is empty or holds the profile an earlier run left for one
\* user whose check was denied.  Rows of traffic_log are retained outside the
\* program; the log starts empty.
InitialTables ==
  { <<>> } \cup
  { <<NewRow(u.id, PyBool(u.is_premium), NULL, FALSE, 0)>> : u \in TgUsers }

Init ==
  /\ users \in InitialTables
  /\ traffic_log = <<>>
  /\ tasks = [t \in Slots |-> IdleTask]
  /\ outbox = <<>>
  /\ requests = 0
  /\ first_source = [u \in UserIds |-> NULL]

\* a slot is free when it never ran a task or its task has finished
Free(task) == task.pc \in {"idle", "done", "failed"}
\* a new task takes the first free slot
CanTake(tk, t) == Free(tk[t]) /\ \A o \in Slots : Free(tk[o]) => t <= o

\* a /start message is dispatched to start_cmd: lines 116-117
StartCmd(t, user, text) ==
  /\ CanTake(tasks, t)
  /\ requests < MaxRequests
  /\ requests' = requests + 1
  /\ IF ParseRaises(text)
     THEN /\ tasks' = [tasks EXCEPT ![t] =
               [IdleTask EXCEPT !.kind = "start", !.pc = "failed",
                                !.user_id = user.id, !.is_premium = user.is_premium,
                                !.error = "IndexError"]]
          /\ UNCHANGED traffic_log
     ELSE /\ tasks' = [tasks EXCEPT ![t] =
               [IdleTask EXCEPT !.kind = "start", !.pc = "log_check",
                                !.user_id = user.id, !.is_premium = user.is_premium,
                                !.source = ParseSource(text)]]
          /\ traffic_log' = LogEvent(traffic_log, user.id, "start", ParseSource(text),
                                     PyBool(user.is_premium), Now(requests'))
  /\ UNCHANGED <<users, outbox, first_source>>

\* faulty variant: the "menu" event is folded into the gate's event
MenuCmdFolded(t, user) ==
  /\ CanTake(tasks, t)
  /\ requests < MaxRequests
  /\ requests' = requests + 1
  /\ tasks' = [tasks EXCEPT ![t] =
       [IdleTask EXCEPT !.kind = "menu", !.pc = "log_check",
                        !.user_id = user.id, !.is_premium = user.is_premium]]
  /\ UNCHANGED <<users, traffic_log, outbox, first_source>>

\* a /menu message is dispatched to menu_cmd: line 131
MenuCmd(t, user) ==
  /\ CanTake(tasks, t)
  /\ requests < MaxRequests
  /\ requests' = requests + 1
  /\ tasks' = [tasks EXCEPT ![t] =
       [IdleTask EXCEPT !.kind = "menu", !.pc = "log_check",
                        !.user_id = user.id, !.is_premium = user.is_premium]]
  /\ traffic_log' = LogEvent(traffic_log, user.id, "menu", NULL,
                             PyBool(user.is_premium), Now(requests'))
  /\ UNCHANGED <<users, outbox, first_source>>

\* ensure_access line 103, then check_flyer picks the client and calls it
LogCheckAccess(t) ==
  /\ tasks[t].pc = "log_check"
  /\ traffic_log' = LogEvent(traffic_log, tasks[t].user_id, "check_access",
                             tasks[t].source, PyBool(tasks[t].is_premium), Now(requests))
  /\ tasks' = [tasks EXCEPT ![t].pc = "check", ![t].conn = FALSE,
                            ![t].client = FlyerClient(tasks[t].is_premium)]
  /\ UNCHANGED <<users, outbox, requests, first_source>>

\* faulty variant: the minimal gate records a "check_access" event as well
EnsureAccessCbLogs(t, user) ==
  /\ CanTake(tasks, t)
  /\ requests < MaxRequests
  /\ requests' = requests + 1
  /\ tasks' = [tasks EXCEPT ![t] =
       [IdleTask EXCEPT !.kind = "cb", !.pc = "check",
                        !.user_id = user.id, !.is_premium = user.is_premium,
                        !.client = FlyerClient(user.is_premium)]]
  /\ traffic_log' = LogEvent(traffic_log, user.id, "check_access", NULL,
                             PyBool(user.is_premium), Now(requests'))
  /\ UNCHANGED <<users, outbox, first_source>>

\* ensure_access_cb is called for a callback query; check_flyer picks the
\* client and calls it
EnsureAccessCb(t, user) ==
  /\ CanTake(tasks, t)
  /\ requests < MaxRequests
  /\ requests' = requests + 1
  /\ tasks' = [tasks EXCEPT ![t] =
       [IdleTask EXCEPT !.kind = "cb", !.pc = "check",
                        !.user_id = user.id, !.is_premium = user.is_premium,
                        !.client = FlyerClient(user.is_premium)]]
  /\ UNCHANGED <<users, traffic_log, outbox, first_source>>

\* the external check answers
CheckFlyer(t, result) ==
  /\ tasks[t].pc = "check"
  /\ tasks' = [tasks EXCEPT ![t].pc = "upsert", ![t].ok = result]
  /\ UNCHANGED <<users, traffic_log, outbox, requests, first_source>>

\* faulty variant: a failed check is caught and taken as a denial
CheckFlyerRaisesDenies(t) ==
  /\ tasks[t].pc = "check"
  /\ tasks' = [tasks EXCEPT ![t].pc = "upsert", ![t].ok = FALSE]
  /\ UNCHANGED <<users, traffic_log, outbox, requests, first_source>>

\* the external check fails; nothing catches the exception
CheckFlyerRaises(t) ==
  /\ tasks[t].pc = "check"
  /\ tasks' = [tasks EXCEPT ![t].pc = "failed", ![t].error = "CheckError"]
  /\ UNCHANGED <<users, traffic_log, outbox, requests, first_source>>

\* faulty variant: a profile that passed before is let in without asking again
AccessDecisionCached(task, tbl) ==
  task.ok \/ (RowsOf(tbl, task.user_id) # {} /\
               tbl[CHOOSE i \in RowsOf(tbl, task.user_id) : TRUE].flyer_passed)

\* ensure_access line 106 / ensure_access_cb line 112: return ok
AccessDecision(task, tbl) == task.ok

\* ensure_access line 105 / ensure_access_cb line 111, then the caller's
\* test of the returned value (lines 119 and 132)
UpsertUserStep(t) ==
  /\ tasks[t].pc = "upsert"
  /\ users' = UpsertUser(users, tasks[t].user_id, PyBool(tasks[t].is_premium),
                         tasks[t].source, tasks[t].ok, Now(requests))
  /\ first_source' =
       [first_source EXCEPT ![tasks[t].user_id] =
          IF @ = NULL THEN tasks[t].source ELSE @]
  /\ tasks' = [tasks EXCEPT ![t].conn = FALSE, ![t].pc =
       IF tasks[t].kind # "cb" /\ AccessDecision(tasks[t], users')
       THEN "answer" ELSE "done"]
  /\ UNCHANGED <<traffic_log, outbox, requests>>

\* start_cmd line 122 / menu_cmd line 134
Answer(t) ==
  /\ tasks[t].pc = "answer"
  /\ outbox' = Append(outbox,
       [chat_id |-> tasks[t].user_id,
        text |-> IF tasks[t].kind = "start" THEN "welcome" ELSE "menu",
        premium |-> tasks[t].kind = "start" /\ PyBool(tasks[t].is_premium)])
  /\ tasks' = [tasks EXCEPT ![t].pc = "done", ![t].answered = TRUE]
  /\ UNCHANGED <<users, traffic_log, requests, first_source>>

\* a POST reaches flyer_webhook: lines 137-142
FlyerWebhook(t, payload) ==
  /\ CanTake(tasks, t)
  /\ requests < MaxRequests
  /\ requests' = requests + 1
  /\ tasks' = [tasks EXCEPT ![t] =
       IF ~IsSubCompleted(payload)
       THEN [IdleTask EXCEPT !.kind = "webhook", !.pc = "done",
                             !.payload = payload, !.response = "200"]
       ELSE IF GetRaises(payload)
       THEN [IdleTask EXCEPT !.kind = "webhook", !.pc = "failed",
                             !.payload = payload, !.response = "500",
                             !.error = "AttributeError"]
       ELSE [IdleTask EXCEPT !.kind = "webhook", !.pc = "update",
                             !.payload = payload]]
  /\ UNCHANGED <<users, traffic_log, outbox, first_source>>

\* flyer_webhook lines 143-147
WebhookUpdate(t) ==
  /\ tasks[t].pc = "update"
  /\ users' = UpdateFlyerPassed(users, DataUserId(tasks[t].payload))
  /\ tasks' = [tasks EXCEPT ![t].pc = "done", ![t].response = "200",
                            ![t].conn = FALSE,
                            ![t].rowcount = RowCount(users, DataUserId(tasks[t].payload))]
  /\ UNCHANGED <<traffic_log, outbox, requests, first_source>>

Next ==
  \/ \E t \in Slots, user \in TgUsers, text \in StartTexts : StartCmd(t, user, text)
  \/ \E t \in Slots, user \in TgUsers : MenuCmd(t, user)
  \/ \E t \in Slots, user \in TgUsers : EnsureAccessCb(t, user)
  \/ \E t \in Slots, payload \in Payloads : FlyerWebhook(t, payload)
  \/ \E t \in Slots : LogCheckAccess(t)
  \/ \E t \in Slots, result \in BOOLEAN : CheckFlyer(t, result)
  \/ \E t \in Slots : CheckFlyerRaises(t)
  \/ \E t \in Slots : UpsertUserStep(t)
  \/ \E t \in Slots : Answer(t)
  \/ \E t \in Slots : WebhookUpdate(t)

Spec == Init /\ [][Next]_vars

(* ------------------------------------------- the store's connection pool *)
\* Each store operation is "async with db_pool.acquire() as conn: await
\* conn.execute(...)" (lines 79-80, 91-92, 143-144). Here the acquisition is
\* a step of its own, the statement and the release at the end of the block
\* are the next step, and a statement may raise; tasks[t].conn tells whether
\* the handling in slot t holds a connection of the pool.
StorePcs == {"log_start", "log_menu", "log_check", "upsert", "update"}

\* the number of connections taken from the pool
HeldConnections == Cardinality({ t \in Slots : tasks[t].conn })

\* a /start message is dispatched to start_cmd: line 116
StartCmdReceived(t, user, text) ==
  /\ CanTake(tasks, t)
  /\ requests < MaxRequests
  /\ requests' = requests + 1
  /\ tasks' = [tasks EXCEPT ![t] =
       IF ParseRaises(text)
       THEN [IdleTask EXCEPT !.kind = "start", !.pc = "failed",
                             !.user_id = user.id, !.is_premium = user.is_premium,
                             !.error = "IndexError"]
       ELSE [IdleTask EXCEPT !.kind = "start", !.pc = "log_start",
                             !.user_id = user.id, !.is_premium = user.is_premium,
                             !.source = ParseSource(text)]]
  /\ UNCHANGED <<users, traffic_log, outbox, first_source>>

\* a /menu message is dispatched to menu_cmd
MenuCmdReceived(t, user) ==
  /\ CanTake(tasks, t)
  /\ requests < MaxRequests
  /\ requests' = requests + 1
  /\ tasks' = [tasks EXCEPT ![t] =
       [IdleTask EXCEPT !.kind = "menu", !.pc = "log_menu",
                        !.user_id = user.id, !.is_premium = user.is_premium]]
  /\ UNCHANGED <<users, traffic_log, outbox, first_source>>

\* db_pool.acquire() of the store operation the handling is at
Acquire(t) ==
  /\ tasks[t].pc \in StorePcs
  /\ ~tasks[t].conn
  /\ tasks' = [tasks EXCEPT ![t].conn = TRUE]
  /\ UNCHANGED <<users, traffic_log, outbox, requests, first_source>>

\* start_cmd line 117 / menu_cmd line 131: the INSERT of log_event and the
\* end of its async with block
LogCommand(t) ==
  /\ tasks[t].pc \in {"log_start", "log_menu"}
  /\ tasks[t].conn
  /\ traffic_log' = LogEvent(traffic_log, tasks[t].user_id, tasks[t].kind,
                             tasks[t].source, PyBool(tasks[t].is_premium), Now(requests))
  /\ tasks' = [tasks EXCEPT ![t].pc = "log_check", ![t].conn = FALSE]
  /\ UNCHANGED <<users, outbox, requests, first_source>>

\* faulty variant: the connection is not given back when the statement raises
QueryFailsLeaks(t) ==
  /\ tasks[t].pc \in StorePcs
  /\ tasks[t].conn
  /\ tasks' = [tasks EXCEPT ![t].pc = "failed", ![t].error = "StoreError",
                            ![t].response =
                              IF tasks[t].kind = "webhook" THEN "500" ELSE @]
  /\ UNCHANGED <<users, traffic_log, outbox, requests, first_source>>

\* conn.execute raises: the async with block gives the connection back and
\* the exception leaves the handler
QueryFails(t) ==
  /\ tasks[t].pc \in StorePcs
  /\ tasks[t].conn
  /\ tasks' = [tasks EXCEPT ![t].pc = "failed", ![t].error = "StoreError",
                            ![t].conn = FALSE,
                            ![t].response =
                              IF tasks[t].kind = "webhook" THEN "500" ELSE @]
  /\ UNCHANGED <<users, traffic_log, outbox, requests, first_source>>

NextConn ==
  \/ \E t \in Slots, user \in TgUsers, text \in StartTexts :
       StartCmdReceived(t, user, text)
  \/ \E t \in Slots, user \in TgUsers : MenuCmdReceived(t, user)
  \/ \E t \in Slots, user \in TgUsers : EnsureAccessCb(t, user)
  \/ \E t \in Slots, payload \in Payloads : FlyerWebhook(t, payload)
  \/ \E t \in Slots : Acquire(t)
  \/ \E t \in Slots : LogCommand(t)
  \/ \E t \in Slots : tasks[t].conn /\ LogCheckAccess(t)
  \/ \E t \in Slots, result \in BOOLEAN : CheckFlyer(t, result)
  \/ \E t \in Slots : CheckFlyerRaises(t)
  \/ \E t \in Slots : tasks[t].conn /\ UpsertUserStep(t)
  \/ \E t \in Slots : Answer(t)
  \/ \E t \in Slots : tasks[t].conn /\ WebhookUpdate(t)
  \/ \E t \in Slots : QueryFails(t)

SpecConn == Init /\ [][NextConn]_vars

(* ------------------------------------------------------------- properties *)
\* the handlers that evaluate the access gate
GateKinds == {"start", "menu", "cb"}
\* the stored passed_check of an identity
Passed(tbl, u) == HasRow(tbl, u) /\ RowOf(tbl, u).flyer_passed
\* the requests of the run were handled one after the other, the last one in
\* slot 1: slot 2 was never taken
OneAfterTheOther == requests = 2 /\ tasks[2].pc = "idle"

\* C1: once a profile's flyer_passed is true it is true after every step, be
\* it a gate's upsert with any check result or a webhook update.
C1_StickyPassed ==
  [][\A u \in UserIds : Passed(users, u) => Passed(users', u)]_vars

\* C1 witness: a request set flyer_passed, and the gate evaluation handled
\* after it was denied and has upserted its FALSE.
C1_Witness ==
  /\ OneAfterTheOther
  /\ tasks[1].kind \in {"start", "cb"}
  /\ tasks[1].pc = "done"
  /\ ~tasks[1].ok
  /\ Passed(users, tasks[1].user_id)

\* C2: a profile's source, once not NULL, is the same after every step, and
\* it is the source of the first executed upsert of that identity that
\* carried a source.
C2_SourceFirstWriteWins ==
  [][\A u \in UserIds :
       /\ HasRow(users', u) => RowOf(users', u).source = first_source'[u]
       /\ (HasRow(users, u) /\ RowOf(users, u).source # NULL)
            => (HasRow(users', u) /\ RowOf(users', u).source = RowOf(users, u).source)
    ]_vars

\* C2 witness: /start a was handled, then /start b of the same user, and the
\* profile holds "a".
C2_Witness ==
  /\ OneAfterTheOther
  /\ tasks[1].kind = "start"
  /\ tasks[1].pc = "done"
  /\ tasks[1].source = "b"
  /\ HasRow(users, tasks[1].user_id)
  /\ RowOf(users, tasks[1].user_id).source = "a"

\* C3: no identity ever has two profile rows; an upsert of an identity
\* without a row adds exactly one row, any other step adds none, and no step
\* removes or moves a row.
C3_OneRowPerIdentity ==
  /\ \A u \in UserIds : Cardinality(RowsOf(users, u)) <= 1
  /\ [][/\ \A u \in UserIds : Cardinality(RowsOf(users', u)) <= 1
        /\ \A u \in UserIds : RowsOf(users, u) \subseteq RowsOf(users', u)
        /\ \A t \in Slots :
             UpsertUserStep(t) =>
               Len(users') = Len(users) +
                 (IF HasRow(users, tasks[t].user_id) THEN 0 ELSE 1)
        /\ (\A t \in Slots : ~UpsertUserStep(t)) => Len(users') = Len(users)
       ]_vars

\* C3 witness: two gate evaluations of one identity ran at the same time,
\* both have upserted, and the table holds the one row they created.
C3_Witness ==
  /\ \A t \in Slots : tasks[t].kind \in GateKinds /\ tasks[t].pc = "done"
  /\ tasks[1].user_id = tasks[2].user_id
  /\ Len(users) = 1
  /\ RowOf(users, tasks[1].user_id).created_at >= 1


\* the upsert a gate evaluation is about to execute, applied to a table
PendingUpsert(t) == tasks[t].pc = "upsert"
ApplyUpsert(tbl, t, clock) ==
  UpsertUser(tbl, tasks[t].user_id, PyBool(tasks[t].is_premium),
             tasks[t].source, tasks[t].ok, clock)
\* a profile row without last_seen_at
Fields(row) ==
  [tg_id |-> row.tg_id, is_premium |-> row.is_premium, source |-> row.source,
   flyer_passed |-> row.flyer_passed, created_at |-> row.created_at]
\* applying the pending upsert of t twice gives the fields of applying it once
Idempotent(t) ==
  LET u == tasks[t].user_id
      once == ApplyUpsert(users, t, Now(requests))
      twice == ApplyUpsert(once, t, Now(requests) + 1)
  IN  /\ Len(twice) = Len(once)
      /\ Fields(RowOf(twice, u)) = Fields(RowOf(once, u))
\* the tables after the pending upserts of g1 and g2 in either order
Then(g1, g2) == ApplyUpsert(ApplyUpsert(users, g1, Now(requests)), g2, Now(requests))
PassedCommutes(g1, g2) ==
  LET u == tasks[g1].user_id
  IN  RowOf(Then(g1, g2), u).flyer_passed = RowOf(Then(g2, g1), u).flyer_passed
SourceCommutes(g1, g2) ==
  LET u == tasks[g1].user_id
  IN  RowOf(Then(g1, g2), u).source = RowOf(Then(g2, g1), u).source
\* two gate evaluations of one identity are both about to upsert
RacingUpserts(g1, g2) ==
  /\ g1 # g2
  /\ PendingUpsert(g1)
  /\ PendingUpsert(g2)
  /\ tasks[g1].user_id = tasks[g2].user_id
\* the stored source of an identity, NULL without a row
StoredSource(tbl, u) == IF HasRow(tbl, u) THEN RowOf(tbl, u).source ELSE NULL

\* C4 as stated: whenever two upserts of one identity are pending, either
\* order of executing them stores the same flyer_passed and the same source,
\* and executing a pending upsert twice stores the fields (last_seen_at
\* aside) of executing it once.
C4_MergeCommutativeIdempotent ==
  /\ \A g \in Slots : PendingUpsert(g) => Idempotent(g)
  /\ \A g1, g2 \in Slots :
       RacingUpserts(g1, g2) => PassedCommutes(g1, g2) /\ SourceCommutes(g1, g2)

\* C4 amended: the merge is idempotent per field and commutative in
\* flyer_passed; the stored source is the same in either order when the
\* profile already has a source or the two upserts do not carry two different
\* sources, and otherwise it is the source of the upsert executed first.
C4_MergeAmended ==
  /\ \A g \in Slots : PendingUpsert(g) => Idempotent(g)
  /\ \A g1, g2 \in Slots :
       RacingUpserts(g1, g2) =>
         /\ PassedCommutes(g1, g2)
         /\ IF \/ StoredSource(users, tasks[g1].user_id) # NULL
               \/ tasks[g1].source = tasks[g2].source
               \/ tasks[g1].source = NULL
               \/ tasks[g2].source = NULL
            THEN SourceCommutes(g1, g2)
            ELSE RowOf(Then(g1, g2), tasks[g1].user_id).source = tasks[g1].source

\* C4 witness: two upserts of one identity with the sources "a" and "b" are
\* pending, one with a passed and one with a denied check.
C4_Witness ==
  \E g1, g2 \in Slots :
    /\ RacingUpserts(g1, g2)
    /\ tasks[g1].source = "a"
    /\ tasks[g2].source = "b"
    /\ tasks[g1].ok
    /\ ~tasks[g2].ok

\* the webhook update a sub_completed notification is about to execute
PendingUpdate(w) == tasks[w].pc = "update"
ApplyUpdate(tbl, w) == UpdateFlyerPassed(tbl, DataUserId(tasks[w].payload))
\* a gate's upsert and a webhook's update of the same identity are both
\* about to reach the store
RacingUpdate(g, w) ==
  /\ PendingUpsert(g)
  /\ PendingUpdate(w)
  /\ DataUserId(tasks[w].payload) = JInt(tasks[g].user_id)
\* both orders of the two statements store the same flyer_passed
UpdateCommutes(g, w) ==
  LET u == tasks[g].user_id
      upsert_first == ApplyUpdate(ApplyUpsert(users, g, Now(requests)), w)
      update_first == ApplyUpsert(ApplyUpdate(users, w), g, Now(requests))
  IN  RowOf(upsert_first, u).flyer_passed = RowOf(update_first, u).flyer_passed

\* C5 as stated: whenever a gate's upsert and a sub_completed webhook's
\* update of the same identity are both pending, with or without a profile
\* row, either order of executing them stores the same flyer_passed.
C5_WebhookGateCommute ==
  \A g, w \in Slots : RacingUpdate(g, w) => UpdateCommutes(g, w)

\* C5 amended: the two orders store the same flyer_passed when the identity
\* already has a profile row; without a row the update that comes first
\* touches nothing and the stored flyer_passed is the gate's check result.
C5_WebhookGateCommuteWithRow ==
  \A g, w \in Slots :
    RacingUpdate(g, w) =>
      IF HasRow(users, tasks[g].user_id)
      THEN UpdateCommutes(g, w)
      ELSE RowOf(ApplyUpsert(ApplyUpdate(users, w), g, Now(requests)),
                 tasks[g].user_id).flyer_passed = tasks[g].ok

\* C5 witness: the identity has a profile with flyer_passed false, the gate's
\* check was denied, and its upsert and the webhook's update are both pending.
C5_Witness ==
  \E g, w \in Slots :
    /\ RacingUpdate(g, w)
    /\ HasRow(users, tasks[g].user_id)
    /\ ~RowOf(users, tasks[g].user_id).flyer_passed
    /\ ~tasks[g].ok

\* the webhook handlers of sub_completed notifications
SubCompleted(w) ==
  tasks[w].kind = "webhook" /\ EventType(tasks[w].payload) = JStr("sub_completed")
\* no profile row has the identity a user_id parameter names
NamesNoRow(tbl, param) ==
  IF param.tag = "int" THEN RowsOf(tbl, param.val) = {} ELSE TRUE

\* C6: after a sub_completed webhook whose user_id had a profile row when the
\* update ran, that profile's flyer_passed is true.
C6_WebhookSetsPassed ==
  \A w \in Slots :
    (SubCompleted(w) /\ tasks[w].pc = "done" /\ tasks[w].rowcount >= 1)
      => Passed(users, DataUserId(tasks[w].payload).val)

\* C6 witness: the only request of the run is a sub_completed webhook for a
\* profile that started with flyer_passed false; no check was ever made.
C6_Witness ==
  /\ requests = 1
  /\ SubCompleted(1)
  /\ tasks[1].pc = "done"
  /\ tasks[1].rowcount = 1
  /\ Passed(users, DataUserId(tasks[1].payload).val)

\* C7: the update of a sub_completed webhook whose user_id has no profile row
\* leaves users and traffic_log as they were and is answered with 200.
C7_UnknownUserNoChange ==
  [][\A w \in Slots :
       (WebhookUpdate(w) /\ NamesNoRow(users, DataUserId(tasks[w].payload)))
         => /\ users' = users
            /\ traffic_log' = traffic_log
            /\ tasks'[w].pc = "done"
            /\ tasks'[w].response = "200"
    ]_vars

\* C7 witness: the only request of the run is a sub_completed webhook for an
\* identity without a row, handled while another identity has a profile.
C7_Witness ==
  /\ requests = 1
  /\ SubCompleted(1)
  /\ tasks[1].pc = "done"
  /\ tasks[1].response = "200"
  /\ DataUserId(tasks[1].payload).tag = "int"
  /\ ~HasRow(users, DataUserId(tasks[1].payload).val)
  /\ Len(users) = 1

\* C8: a webhook whose type is not "sub_completed", or is absent, is answered
\* with 200 at once and leaves users and traffic_log as they were.
C8_OtherTypeNoChange ==
  [][\A w \in Slots, payload \in Payloads :
       (FlyerWebhook(w, payload) /\ EventType(payload) # JStr("sub_completed"))
         => /\ users' = users
            /\ traffic_log' = traffic_log
            /\ tasks'[w].pc = "done"
            /\ tasks'[w].response = "200"
    ]_vars

\* C8 witness: a webhook without a type that names an existing profile was
\* handled and the profile's flyer_passed is still false.
C8_Witness ==
  \E w \in Slots :
    /\ tasks[w].kind = "webhook"
    /\ tasks[w].pc = "done"
    /\ EventType(tasks[w].payload) = PyNone
    /\ tasks[w].response = "200"
    /\ HasRow(users, DataUserId(tasks[w].payload).val)
    /\ ~Passed(users, DataUserId(tasks[w].payload).val)

\* the body of a sub_completed notification carries no data.user_id
LacksUserId(payload) ==
  \/ "data" \notin DOMAIN payload.val
  \/ payload.val["data"].tag # "obj"
  \/ "user_id" \notin DOMAIN payload.val["data"].val

\* C9: a sub_completed webhook without data.user_id (no data, data without
\* user_id, data null) never fails: it is answered with 200 and touches no row.
C9_MalformedPayloadNoOp ==
  \A w \in Slots :
    (SubCompleted(w) /\ LacksUserId(tasks[w].payload))
      => /\ tasks[w].pc # "failed"
         /\ tasks[w].pc = "done" => (tasks[w].response = "200" /\ tasks[w].rowcount = 0)

\* the handlers that reply to a message
CommandKinds == {"start", "menu"}

\* C10: a reply is sent in a handling exactly when the check of that handling
\* returned true: the step after the upsert goes on to the reply if and only
\* if the check said so, only a handling whose check passed appends to the
\* outbox, and a finished handling has replied if and only if its check passed.
C10_DecisionIsCheckResult ==
  /\ [](\A t \in Slots :
          tasks[t].kind \in CommandKinds =>
            /\ tasks[t].pc = "answer" => tasks[t].ok
            /\ tasks[t].pc = "done" => (tasks[t].answered <=> tasks[t].ok)
            /\ tasks[t].pc \notin {"answer", "done"} => ~tasks[t].answered)
  /\ [][/\ \A t \in Slots :
             (UpsertUserStep(t) /\ tasks[t].kind \in CommandKinds)
               => /\ tasks'[t].pc = (IF tasks[t].ok THEN "answer" ELSE "done")
                  /\ outbox' = outbox
        /\ outbox' # outbox
             => \E t \in Slots :
                  /\ tasks[t].kind \in CommandKinds
                  /\ tasks[t].pc = "answer"
                  /\ tasks[t].ok
                  /\ tasks'[t].answered
                  /\ Len(outbox') = Len(outbox) + 1
                  /\ outbox'[Len(outbox')].chat_id = tasks[t].user_id
       ]_vars

\* C10 witness: a webhook set the profile's flyer_passed, then /menu of that
\* user was denied by its check and ended without a reply.
C10_Witness ==
  /\ OneAfterTheOther
  /\ tasks[1].kind = "menu"
  /\ tasks[1].pc = "done"
  /\ ~tasks[1].ok
  /\ ~tasks[1].answered
  /\ outbox = <<>>
  /\ Passed(users, tasks[1].user_id)

\* the log row is the event `name` of the handling in slot t
IsEventOf(row, t, name, source) ==
  /\ row.tg_id = tasks[t].user_id
  /\ row.event = name
  /\ row.source = source
  /\ row.is_premium = PyBool(tasks[t].is_premium)
\* the log is the old log and one more row
AppendsOne(old, new) == Len(new) = Len(old) + 1 /\ SubSeq(new, 1, Len(old)) = old
\* the handling in slot t has called the external check
CheckCalled(t) == tasks[t].pc \in {"check", "upsert", "answer", "done"}
\* a step of the handling in slot t after its check was called
StepAfterCheckCall(t) ==
  \/ \E result \in BOOLEAN : CheckFlyer(t, result)
  \/ CheckFlyerRaises(t)
  \/ UpsertUserStep(t)
  \/ Answer(t)

\* C11: a /start handling appends one "start" event and then one
\* "check_access" event of its user, both with the parsed source, before the
\* check is called and the profile upserted, and no event after that; when
\* the check denies a user without a profile the upsert creates the profile
\* with flyer_passed false and the handling ends without a reply.
C11_StartEvents ==
  /\ [](\A t \in Slots :
          (tasks[t].kind = "start" /\ CheckCalled(t)) =>
            \E i, j \in 1..Len(traffic_log) :
              /\ i < j
              /\ IsEventOf(traffic_log[i], t, "start", tasks[t].source)
              /\ IsEventOf(traffic_log[j], t, "check_access", tasks[t].source))
  /\ [][\A t \in Slots :
          /\ (\E user \in TgUsers, text \in StartTexts : StartCmd(t, user, text))
               => \/ tasks'[t].pc = "failed" /\ traffic_log' = traffic_log
                  \/ /\ tasks'[t].pc = "log_check"
                     /\ AppendsOne(traffic_log, traffic_log')
                     /\ tasks'[t].kind = "start"
                     /\ traffic_log'[Len(traffic_log')].tg_id = tasks'[t].user_id
                     /\ traffic_log'[Len(traffic_log')].event = "start"
                     /\ traffic_log'[Len(traffic_log')].source = tasks'[t].source
                     /\ users' = users
          /\ (tasks[t].kind = "start" /\ LogCheckAccess(t))
               => /\ AppendsOne(traffic_log, traffic_log')
                  /\ IsEventOf(traffic_log'[Len(traffic_log')], t, "check_access",
                               tasks[t].source)
                  /\ tasks'[t].pc = "check"
                  /\ users' = users
          /\ (tasks[t].kind = "start" /\ StepAfterCheckCall(t))
               => traffic_log' = traffic_log
          /\ (tasks[t].kind = "start" /\ UpsertUserStep(t) /\ ~tasks[t].ok
                /\ ~HasRow(users, tasks[t].user_id))
               => /\ HasRow(users', tasks[t].user_id)
                  /\ ~RowOf(users', tasks[t].user_id).flyer_passed
                  /\ tasks'[t].pc = "done"
                  /\ outbox' = outbox
       ]_vars

\* C11 witness: the only request of the run is the /start of a user without
\* a profile; the check denied it, the log holds its two events, the profile
\* exists with flyer_passed false and nothing was sent.
C11_Witness ==
  /\ requests = 1
  /\ tasks[1].kind = "start"
  /\ tasks[1].pc = "done"
  /\ ~tasks[1].ok
  /\ Len(traffic_log) = 2
  /\ traffic_log[1].event = "start"
  /\ traffic_log[2].event = "check_access"
  /\ Len(users) = 1
  /\ users[1].tg_id = tasks[1].user_id
  /\ users[1].created_at = 1
  /\ ~users[1].flyer_passed
  /\ outbox = <<>>

\* C12: a /menu handling appends a "menu" event and then, separately, a
\* "check_access" event of its user, both with a null source, before the
\* check is called; its upsert carries a null source, so the source of an
\* existing profile stays as it was (and a new profile has none).
C12_MenuEvents ==
  /\ [](\A t \in Slots :
          (tasks[t].kind = "menu" /\ CheckCalled(t)) =>
            \E i, j \in 1..Len(traffic_log) :
              /\ i < j
              /\ IsEventOf(traffic_log[i], t, "menu", NULL)
              /\ IsEventOf(traffic_log[j], t, "check_access", NULL))
  /\ [][\A t \in Slots :
          /\ (\E user \in TgUsers : MenuCmd(t, user))
               => /\ AppendsOne(traffic_log, traffic_log')
                  /\ tasks'[t].kind = "menu"
                  /\ tasks'[t].pc = "log_check"
                  /\ traffic_log'[Len(traffic_log')].tg_id = tasks'[t].user_id
                  /\ traffic_log'[Len(traffic_log')].event = "menu"
                  /\ traffic_log'[Len(traffic_log')].source = NULL
                  /\ users' = users
          /\ (tasks[t].kind = "menu" /\ LogCheckAccess(t))
               => /\ AppendsOne(traffic_log, traffic_log')
                  /\ IsEventOf(traffic_log'[Len(traffic_log')], t, "check_access", NULL)
                  /\ tasks'[t].pc = "check"
                  /\ users' = users
          /\ (tasks[t].kind = "menu" /\ StepAfterCheckCall(t))
               => traffic_log' = traffic_log
          /\ (tasks[t].kind = "menu" /\ UpsertUserStep(t))
               => /\ tasks[t].source = NULL
                  /\ HasRow(users', tasks[t].user_id)
                  /\ RowOf(users', tasks[t].user_id).source =
                       IF HasRow(users, tasks[t].user_id)
                       THEN RowOf(users, tasks[t].user_id).source ELSE NULL
       ]_vars

\* C12 witness: a /start with source "a" was handled, then a /menu of the
\* same user ran to its end; the log holds the four events in order and the
\* stored source is still "a".
C12_Witness ==
  /\ OneAfterTheOther
  /\ tasks[1].kind = "menu"
  /\ tasks[1].pc = "done"
  /\ Len(traffic_log) = 4
  /\ traffic_log[1].event = "start"
  /\ traffic_log[1].source = "a"
  /\ traffic_log[3].event = "menu"
  /\ traffic_log[3].source = NULL
  /\ traffic_log[4].event = "check_access"
  /\ traffic_log[4].source = NULL
  /\ HasRow(users, tasks[1].user_id)
  /\ RowOf(users, tasks[1].user_id).source = "a"
  /\ RowOf(users, tasks[1].user_id).last_seen_at = 2

\* the handling in slot t was aborted by a failure of the external check
CheckFailed(t) == tasks[t].pc = "failed" /\ tasks[t].error = "CheckError"

\* C13: when the external check fails during /start or /menu the handling is
\* aborted: the step leaves the profiles, the replies and the log as they
\* are, the aborted handling never upserts or answers afterwards, and its
\* command event and "check_access" event are still in the log.
C13_CheckFailureAborts ==
  /\ [](\A t \in Slots :
          (tasks[t].kind \in CommandKinds /\ CheckFailed(t)) =>
            /\ ~tasks[t].answered
            /\ \E i, j \in 1..Len(traffic_log) :
                 /\ i < j
                 /\ IsEventOf(traffic_log[i], t, tasks[t].kind, tasks[t].source)
                 /\ IsEventOf(traffic_log[j], t, "check_access", tasks[t].source))
  /\ [][\A t \in Slots :
          /\ (tasks[t].kind \in CommandKinds /\ CheckFlyerRaises(t))
               => /\ CheckFailed(t)'
                  /\ users' = users
                  /\ outbox' = outbox
                  /\ traffic_log' = traffic_log
          /\ (tasks[t].kind \in CommandKinds /\ CheckFailed(t))
               => /\ ~UpsertUserStep(t)
                  /\ ~Answer(t)
                  /\ ~(\E result \in BOOLEAN : CheckFlyer(t, result))
                  /\ (users' # users => \E o \in Slots \ {t} :
                                          UpsertUserStep(o) \/ WebhookUpdate(o))
                  /\ (outbox' # outbox => \E o \in Slots \ {t} : Answer(o))
       ]_vars

\* C13 witness: the only request of the run is a /start whose check failed;
\* there is no profile and no reply, and the log holds its two events.
C13_Witness ==
  /\ requests = 1
  /\ tasks[1].kind = "start"
  /\ CheckFailed(1)
  /\ users = <<>>
  /\ outbox = <<>>
  /\ Len(traffic_log) = 2
  /\ traffic_log[1].event = "start"
  /\ traffic_log[2].event = "check_access"

\* the characters of the text after the command that are not whitespace
TokenChars(text) == SelectSeq(Tail(text), LAMBDA c : c \notin Whitespace)

\* C14: parsing the text of a /start message never fails and never gives
\* the empty string; it gives a null source when nothing but whitespace
\* follows the command, and the token itself when one space and a token
\* follow it.
C14_ParseSource ==
  [][\A t \in Slots, user \in TgUsers, text \in StartTexts :
       StartCmd(t, user, text) =>
         /\ tasks'[t].pc # "failed"
         /\ tasks'[t].source # ""
         /\ (TokenChars(text) = <<>> => tasks'[t].source = NULL)
         /\ (Len(text) = 3 /\ text[2] = Space /\ text[3] \notin Whitespace
               => tasks'[t].source = text[3])
    ]_vars

\* C15: the minimal gate calls the check and upserts the profile like the
\* full gate (the stored flyer_passed becomes the old value or the check's
\* answer) but no step of it changes the event log, and its upsert carries a
\* null source, so the source of an existing profile stays as it was.
C15_MinimalGateNoEvent ==
  [][\A t \in Slots :
       /\ (\E user \in TgUsers : EnsureAccessCb(t, user))
            => /\ traffic_log' = traffic_log
               /\ users' = users
               /\ tasks'[t].kind = "cb"
               /\ tasks'[t].pc = "check"
               /\ tasks'[t].source = NULL
       /\ (tasks[t].kind = "cb" /\ StepAfterCheckCall(t))
            => traffic_log' = traffic_log
       /\ (tasks[t].kind = "cb" /\ UpsertUserStep(t))
            => /\ HasRow(users', tasks[t].user_id)
               /\ RowOf(users', tasks[t].user_id).flyer_passed =
                    (tasks[t].ok \/ Passed(users, tasks[t].user_id))
               /\ RowOf(users', tasks[t].user_id).source =
                    IF HasRow(users, tasks[t].user_id)
                    THEN RowOf(users, tasks[t].user_id).source ELSE NULL
    ]_vars

\* C15 witness: a /start with source "a" was handled, then the minimal gate
\* ran for the same user and was granted; the log still holds only the two
\* events of the /start and the stored source is still "a".
C15_Witness ==
  /\ OneAfterTheOther
  /\ tasks[1].kind = "cb"
  /\ tasks[1].pc = "done"
  /\ tasks[1].ok
  /\ Len(traffic_log) = 2
  /\ traffic_log[1].event = "start"
  /\ traffic_log[2].event = "check_access"
  /\ HasRow(users, tasks[1].user_id)
  /\ RowOf(users, tasks[1].user_id).source = "a"
  /\ RowOf(users, tasks[1].user_id).flyer_passed
  /\ RowOf(users, tasks[1].user_id).last_seen_at = 2

\* C16: the event log is append-only: in every step the log before the
\* step is a prefix of the log after it.
C16_LogAppendOnly ==
  [][/\ Len(traffic_log') >= Len(traffic_log)
     /\ SubSeq(traffic_log', 1, Len(traffic_log)) = traffic_log]_vars

\* C16 witness: two handlings of different users ran interleaved, one of
\* them to its end, and the log holds their four events in the order they
\* were appended.
C16_Witness ==
  /\ Len(traffic_log) = 4
  /\ traffic_log[1].event = "start"
  /\ traffic_log[2].event = "menu"
  /\ traffic_log[2].tg_id # traffic_log[1].tg_id
  /\ traffic_log[3].event = "check_access"
  /\ traffic_log[3].tg_id = traffic_log[2].tg_id
  /\ traffic_log[4].event = "check_access"
  /\ traffic_log[4].tg_id = traffic_log[1].tg_id
  /\ \E t \in Slots : tasks[t].kind = "menu" /\ tasks[t].pc = "done"

\* C17: a connection is held only inside a store operation: a handling that
\* holds one is at a store statement, so none is held while its check is in
\* flight, and when no handling is at a store statement none is held at all;
\* an acquisition takes one connection, and the next step of a handling that
\* holds a connection, the statement done or the statement raising, gives it
\* back.
C17_ConnectionsScoped ==
  /\ [](\A t \in Slots : tasks[t].conn => tasks[t].pc \in StorePcs)
  /\ [](\A t \in Slots : tasks[t].pc = "check" => ~tasks[t].conn)
  /\ []((\A t \in Slots : tasks[t].pc \notin StorePcs) => HeldConnections = 0)
  /\ [][\A t \in Slots :
          /\ Acquire(t) => HeldConnections' = HeldConnections + 1
          /\ (tasks[t].conn /\ tasks'[t] # tasks[t])
               => /\ ~tasks'[t].conn
                  /\ HeldConnections' = HeldConnections - 1
       ]_vars

\* C17 witness: one handling has written its two events, each with a
\* connection of its own, and waits for the check; the statement of the
\* other handling raised; no connection is held.
C17_Witness ==
  /\ tasks[1].pc = "check"
  /\ tasks[1].kind = "start"
  /\ Len(traffic_log) = 2
  /\ tasks[2].pc = "failed"
  /\ tasks[2].error = "StoreError"
  /\ tasks[2].kind = "webhook"
  /\ HeldConnections = 0

\* the handling in slot t goes on: the slot is not taken by a new request
SameHandling(t) == requests' = requests \/ ~Free(tasks[t])

\* C18: every external check is issued with the premium client when the
\* user's premium flag is true and with the regular client otherwise, and a
\* handling never changes the client it has chosen.
C18_CheckRouting ==
  /\ [](\A t \in Slots :
          /\ tasks[t].pc = "check" => tasks[t].client # NULL
          /\ tasks[t].client # NULL =>
               (tasks[t].client = "flyer_premium" <=> tasks[t].is_premium = "True")
          /\ tasks[t].client \in {NULL, "flyer_premium", "flyer_regular"})
  /\ [][\A t \in Slots :
          (SameHandling(t) /\ tasks[t].client # NULL)
            => /\ tasks'[t].client = tasks[t].client
               /\ tasks'[t].is_premium = tasks[t].is_premium
       ]_vars

\* C18 witness: two checks are in flight, the one of the premium user with
\* the premium client and the one of the other user with the regular client.
C18_Witness ==
  /\ tasks[1].pc = "check"
  /\ tasks[2].pc = "check"
  /\ tasks[1].is_premium = "True"
  /\ tasks[1].client = "flyer_premium"
  /\ tasks[2].is_premium = "None"
  /\ tasks[2].client = "flyer_regular"

\* the step is the upsert of a gate evaluation of user u whose check said yes
GrantedUpsert(u) ==
  \E t \in Slots : UpsertUserStep(t) /\ tasks[t].user_id = u /\ tasks[t].ok
\* the step is the UPDATE of a sub_completed webhook that names user u
WebhookUpdateOf(u) ==
  \E w \in Slots : /\ WebhookUpdate(w)
                    /\ SubCompleted(w)
                    /\ DataUserId(tasks[w].payload) = JInt(u)

\* C19: no profile starts as passed, and flyer_passed of user u's profile
\* becomes true only in the upsert of a gate evaluation of u whose check
\* returned true, or in the UPDATE of a sub_completed webhook that names u
\* while u's profile exists; no step of another user sets it.
C19_NoSpuriousGrant ==
  /\ \A u \in UserIds : ~Passed(users, u)
  /\ [][\A u \in UserIds :
          (~Passed(users, u) /\ Passed(users', u))
            => \/ GrantedUpsert(u)
               \/ WebhookUpdateOf(u) /\ HasRow(users, u)
       ]_vars

\* C19 witness: the check let the first user in and denied the second one;
\* both have a profile and only the first one's is marked as passed.
C19_Witness ==
  /\ requests = 2
  /\ tasks[1].pc = "done" /\ tasks[1].kind \in GateKinds /\ tasks[1].ok
  /\ tasks[2].pc = "done" /\ tasks[2].kind \in GateKinds /\ ~tasks[2].ok
  /\ tasks[1].user_id # tasks[2].user_id
  /\ Passed(users, tasks[1].user_id)
  /\ HasRow(users, tasks[2].user_id)
  /\ ~Passed(users, tasks[2].user_id)

\* user u has the same profile, or no profile, in both tables
SameProfile(old, new, u) ==
  /\ HasRow(new, u) = HasRow(old, u)
  /\ HasRow(old, u) => RowOf(new, u) = RowOf(old, u)

\* C20: the upsert of a gate evaluation of user u leaves the profile of
\* every other user as it is; the UPDATE of a webhook leaves the profile of
\* every user it does not name as it is and creates none, and in the profile
\* it names it changes nothing but flyer_passed.
C20_StoreWriteFrame ==
  [][\A t \in Slots :
       /\ UpsertUserStep(t)
            => /\ \A u \in UserIds \ {tasks[t].user_id} : SameProfile(users, users', u)
               /\ Len(users') = Len(users) + IF HasRow(users, tasks[t].user_id) THEN 0 ELSE 1
       /\ WebhookUpdate(t)
            => /\ Len(users') = Len(users)
               /\ \A u \in UserIds :
                    IF DataUserId(tasks[t].payload) = JInt(u) /\ HasRow(users, u)
                    THEN /\ HasRow(users', u)
                         /\ RowOf(users', u).flyer_passed
                         /\ RowOf(users', u).tg_id = u
                         /\ RowOf(users', u).is_premium = RowOf(users, u).is_premium
                         /\ RowOf(users', u).source = RowOf(users, u).source
                         /\ RowOf(users', u).created_at = RowOf(users, u).created_at
                         /\ RowOf(users', u).last_seen_at = RowOf(users, u).last_seen_at
                    ELSE SameProfile(users, users', u)
    ]_vars

\* C20 witness: two profiles exist, the second one written by a gate upsert
\* with a source, and a sub_completed webhook naming it was handled: it is
\* marked as passed with its source and timestamps as the upsert left them,
\* and the first profile is as it was at the start.
C20_Witness ==
  /\ OneAfterTheOther
  /\ tasks[1].kind = "webhook"
  /\ tasks[1].pc = "done"
  /\ tasks[1].rowcount = 1
  /\ Len(users) = 2
  /\ users[1] = NewRow(users[1].tg_id, users[1].is_premium, NULL, FALSE, 0)
  /\ DataUserId(tasks[1].payload) = JInt(users[2].tg_id)
  /\ users[2].flyer_passed
  /\ users[2].source = "a"
  /\ users[2].created_at = 1
  /\ users[2].last_seen_at = 1
====
